---- MODULE Spec2Model ----
(***************************************************************************)
(* A model of prometheus-nginxlog-exporter's per-line processing pipeline  *)
(* (processSource and its helpers), of the namespace configuration it      *)
(* reads, and of main's signal/shutdown wiring.                            *)
(*                                                                         *)
(* Strings are sequences of one-character strings, so that splitting,      *)
(* trimming and number parsing are computed rather than assumed.  Numbers  *)
(* are exact decimals, held as integers scaled by 10^FracDigits.           *)
(***************************************************************************)
EXTENDS Integers, Sequences, FiniteSets, TLC

\* ------------------------------------------------------------------------
\* Bounds of the model
\* ------------------------------------------------------------------------

\* longest field value explored exhaustively by the string-level specification
MaxLen == 4

\* lines a curated line source delivers before it may only end
MaxLines == 2

\* lines the source of the user-tracking specification delivers
MaxUserLines == 3

\* seconds the clock advances in one step, and the last second modelled
ClockStep == 5
MaxTime == 20

\* static labels a namespace of the label-ordering specification has at most
MaxLabels == 3

\* sources a namespace of the orchestration specification has at most
MaxSources == 2

\* number of decimal places kept by the fixed-point representation
FracDigits == MaxLen

\* ------------------------------------------------------------------------
\* Program constants
\* ------------------------------------------------------------------------

maxStaticLabels == 128

\* the period of the pruning ticker, in seconds
TickerPeriod == 15

\* ------------------------------------------------------------------------
\* Strings and numbers
\* ------------------------------------------------------------------------

Digits == {"0", "1", "2", "3", "4", "5", "6", "7", "8", "9"}

DigitVal(c) ==
    CASE c = "0" -> 0 [] c = "1" -> 1 [] c = "2" -> 2 [] c = "3" -> 3
      [] c = "4" -> 4 [] c = "5" -> 5 [] c = "6" -> 6 [] c = "7" -> 7
      [] c = "8" -> 8 [] c = "9" -> 9

RECURSIVE Pow10(_)
Pow10(n) == IF n <= 0 THEN 1 ELSE 10 * Pow10(n - 1)

\* the value of a run of decimal digits
RECURSIVE DigitsVal(_)
DigitsVal(s) ==
    IF s = <<>> THEN 0
    ELSE 10 * DigitsVal(SubSeq(s, 1, Len(s) - 1)) + DigitVal(s[Len(s)])

AllDigits(s) == \A i \in 1..Len(s) : s[i] \in Digits

\* strconv.ParseFloat(s, 64) on the decimal notation: an optional sign, then
\* digits with at most one point and at least one digit.  The result is
\* [ok, v] with v the number scaled by 10^FracDigits.
ParseFloat(s) ==
    LET signed == Len(s) >= 1 /\ s[1] \in {"-", "+"}
        neg    == signed /\ s[1] = "-"
        body   == IF signed THEN SubSeq(s, 2, Len(s)) ELSE s
        dots   == {i \in 1..Len(body) : body[i] = "."}
        dot    == IF dots = {} THEN Len(body) + 1 ELSE CHOOSE i \in dots : TRUE
        ip     == SubSeq(body, 1, dot - 1)
        fp     == SubSeq(body, dot + 1, Len(body))
        ok     == /\ Cardinality(dots) <= 1
                  /\ AllDigits(ip) /\ AllDigits(fp)
                  /\ Len(ip) + Len(fp) >= 1
        mag    == DigitsVal(ip) * Pow10(FracDigits)
                    + DigitsVal(fp) * Pow10(FracDigits - Len(fp))
    IN  IF ok THEN [ok |-> TRUE, v |-> IF neg THEN 0 - mag ELSE mag]
        ELSE [ok |-> FALSE, v |-> 0]

\* strings.FieldsFunc(val, r == ',' || r == ':'): the maximal non-empty
\* runs of characters that are not delimiters
RECURSIVE FieldsFuncAcc(_, _, _, _)
FieldsFuncAcc(s, i, cur, delims) ==
    LET flush == IF cur = <<>> THEN <<>> ELSE <<cur>>
    IN  IF i > Len(s) THEN flush
        ELSE IF s[i] \in delims
             THEN flush \o FieldsFuncAcc(s, i + 1, <<>>, delims)
             ELSE FieldsFuncAcc(s, i + 1, Append(cur, s[i]), delims)

FieldsFunc(s) == FieldsFuncAcc(s, 1, <<>>, {",", ":"})

\* strings.TrimSpace
RECURSIVE TrimSpace(_)
TrimSpace(s) ==
    IF s = <<>> THEN s
    ELSE IF s[1] = " " THEN TrimSpace(Tail(s))
    ELSE IF s[Len(s)] = " " THEN TrimSpace(SubSeq(s, 1, Len(s) - 1))
    ELSE s

\* ------------------------------------------------------------------------
\* Field extractors
\* ------------------------------------------------------------------------

NoObservation == [v |-> 0, ok |-> FALSE, err |-> FALSE]

\* floatFromFields without the test for the "-" token
floatFromFieldsNoDash(flds, name) ==
    IF name \notin DOMAIN flds THEN NoObservation
    ELSE LET p == ParseFloat(flds[name])
         IN  IF ~p.ok THEN [v |-> 0, ok |-> FALSE, err |-> TRUE]
             ELSE [v |-> p.v, ok |-> TRUE, err |-> FALSE]

\* floatFromFields: (value, ok, err)
floatFromFields(flds, name) ==
    IF name \notin DOMAIN flds THEN NoObservation
    ELSE IF flds[name] = <<"-">> THEN NoObservation
    ELSE LET p == ParseFloat(flds[name])
         IN  IF ~p.ok THEN [v |-> 0, ok |-> FALSE, err |-> TRUE]
             ELSE [v |-> p.v, ok |-> TRUE, err |-> FALSE]

\* the loop of floatFromFieldsMulti skipping an unparsable entry instead of
\* failing on it
RECURSIVE SumEntriesPartial(_, _, _)
SumEntriesPartial(entries, i, sum) ==
    IF i > Len(entries) THEN [v |-> sum, ok |-> TRUE, err |-> FALSE]
    ELSE LET v == TrimSpace(entries[i])
         IN  IF v = <<"-">> \/ ~ParseFloat(v).ok
             THEN SumEntriesPartial(entries, i + 1, sum)
             ELSE SumEntriesPartial(entries, i + 1, sum + ParseFloat(v).v)

\* the loop of floatFromFieldsMulti over the split entries, from entry i on
RECURSIVE SumEntries(_, _, _)
SumEntries(entries, i, sum) ==
    IF i > Len(entries) THEN [v |-> sum, ok |-> TRUE, err |-> FALSE]
    ELSE LET v == TrimSpace(entries[i])
         IN  IF v = <<"-">> THEN SumEntries(entries, i + 1, sum)
             ELSE LET p == ParseFloat(v)
                  IN  IF ~p.ok THEN [v |-> 0, ok |-> FALSE, err |-> TRUE]
                      ELSE SumEntries(entries, i + 1, sum + p.v)

\* floatFromFieldsMulti: (value, ok, err)
floatFromFieldsMulti(flds, name) ==
    LET f == floatFromFields(flds, name)
    IN  IF ~f.err THEN f
        ELSE IF name \notin DOMAIN flds THEN NoObservation
        ELSE SumEntries(FieldsFunc(flds[name]), 1, 0)

\* the extractor processSource passes to observeMetrics for each field
Extract(flds, name) ==
    IF name \in {"upstream_response_time", "upstream_connect_time"}
    THEN floatFromFieldsMulti(flds, name)
    ELSE floatFromFields(flds, name)

\* observeMetrics: (observation, ok), and whether parseErrors.Inc() ran
observeMetrics(flds, name) ==
    LET e == Extract(flds, name)
    IN  IF e.ok THEN [v |-> e.v, ok |-> TRUE, parseError |-> FALSE]
        ELSE [v |-> 0, ok |-> FALSE, parseError |-> e.err]

\* ------------------------------------------------------------------------
\* Namespace configuration and relabeling rules
\* ------------------------------------------------------------------------

WellKnownFields ==
    {"body_bytes_sent", "request_length", "upstream_response_time",
     "upstream_connect_time", "request_time"}

\* config.MetricsConfig
MetricsConfig(interval, disabled) ==
    [CurrentUserInterval           |-> interval,
     DisableCountTotal             |-> "count_total" \in disabled,
     DisableResponseBytesTotal     |-> "body_bytes_sent" \in disabled,
     DisableRequestBytesTotal      |-> "request_length" \in disabled,
     DisableUpstreamSeconds        |-> "upstream_response_time" \in disabled,
     DisableUpstreamConnectSeconds |-> "upstream_connect_time" \in disabled,
     DisableResponseSeconds        |-> "request_time" \in disabled]

\* config.NamespaceConfig, as far as processSource reads it
NamespaceConfig(values, relabels, interval, disabled) ==
    [OrderedLabelValues |-> values,
     RelabelConfigs     |-> relabels,
     MetricsConfig      |-> MetricsConfig(interval, disabled)]

\* a relabeling rule: source field, target label, transform and flags
Rule(target, source, kind, onlyCounter, exclude) ==
    [TargetLabel |-> target, SourceValue |-> source, Kind |-> kind,
     OnlyCounter |-> onlyCounter, Exclude |-> exclude]

\* the built-in rules appended after the configured ones
DefaultRelabelings ==
    << Rule("method", "request", "passthrough", FALSE, FALSE),
       Rule("status", "status", "passthrough", FALSE, FALSE) >>

\* a rule's value transform: (mapped, ok).  "passthrough" copies the value;
\* "match" stands for a capture that succeeds on values starting with 2
\* and fails on every other value.
Map(rule, str) ==
    IF rule.Kind = "passthrough" THEN [ok |-> TRUE, v |-> str]
    ELSE IF str # <<>> /\ str[1] = "2"
         THEN [ok |-> TRUE, v |-> <<str[1], "x", "x">>]
         ELSE [ok |-> FALSE, v |-> <<>>]

\* keeps the first rule of every target label
RECURSIVE UniqueRelabelings(_)
UniqueRelabelings(rs) ==
    IF rs = <<>> THEN <<>>
    ELSE LET init == UniqueRelabelings(SubSeq(rs, 1, Len(rs) - 1))
             last == rs[Len(rs)]
         IN  IF \E i \in 1..Len(init) : init[i].TargetLabel = last.TargetLabel
             THEN init ELSE Append(init, last)

\* drops the rules marked Exclude
StripExcluded(rs) == SelectSeq(rs, LAMBDA r : ~r.Exclude)

\* the rule list processSource works with (lines 284-287)
Relabelings(c) ==
    StripExcluded(UniqueRelabelings(c.RelabelConfigs \o DefaultRelabelings))

\* processNamespace's hasCounterOnlyLabels (lines 256-262)
HasCounterOnlyLabels(c) ==
    \E i \in 1..Len(c.RelabelConfigs) : c.RelabelConfigs[i].OnlyCounter

TotalLabelCount(c) == Len(c.OrderedLabelValues) + Len(Relabelings(c))

\* the relabeling slots taken to start at the head of the vector
RelabelLabelOffsetZero(c) == 0

RelabelLabelOffset(c) == Len(c.OrderedLabelValues)

\* drops the slots of the OnlyCounter rules from a label vector: the static
\* values, then the slots of the other rules in rule order
RECURSIVE KeepSlots(_, _, _, _)
KeepSlots(values, rels, static, i) ==
    IF i > Len(rels) THEN << >>
    ELSE (IF rels[i].OnlyCounter THEN << >> ELSE <<values[static + i]>>)
           \o KeepSlots(values, rels, static, i + 1)

StripOnlyCounterValues(values, rels) ==
    SubSeq(values, 1, Len(values) - Len(rels))
      \o KeepSlots(values, rels, Len(values) - Len(rels), 1)

\* ------------------------------------------------------------------------
\* Per-line steps of processSource
\* ------------------------------------------------------------------------

\* the switch of filterFields with request_length reading the flag of
\* body_bytes_sent
DisabledSwapped(field, c) ==
    CASE field = "body_bytes_sent"        -> c.MetricsConfig.DisableResponseBytesTotal
      [] field = "request_length"         -> c.MetricsConfig.DisableResponseBytesTotal
      [] field = "upstream_response_time" -> c.MetricsConfig.DisableUpstreamSeconds
      [] field = "upstream_connect_time"  -> c.MetricsConfig.DisableUpstreamConnectSeconds
      [] field = "request_time"           -> c.MetricsConfig.DisableResponseSeconds
      [] OTHER                            -> FALSE

\* the metrics-config flag that disables a well-known field's metric
Disabled(field, c) ==
    CASE field = "body_bytes_sent"        -> c.MetricsConfig.DisableResponseBytesTotal
      [] field = "request_length"         -> c.MetricsConfig.DisableRequestBytesTotal
      [] field = "upstream_response_time" -> c.MetricsConfig.DisableUpstreamSeconds
      [] field = "upstream_connect_time"  -> c.MetricsConfig.DisableUpstreamConnectSeconds
      [] field = "request_time"           -> c.MetricsConfig.DisableResponseSeconds
      [] OTHER                            -> FALSE

\* filterFields
filterFields(flds, c) ==
    [f \in {g \in DOMAIN flds : ~Disabled(g, c)} |-> flds[f]]

\* the relabeling loop (lines 320-327), from rule i on
RECURSIVE RelabelFrom(_, _, _, _, _)
RelabelFrom(lv, flds, rels, offset, i) ==
    IF i > Len(rels) THEN lv
    ELSE IF rels[i].SourceValue \in DOMAIN flds
         THEN LET m == Map(rels[i], flds[rels[i].SourceValue])
              IN  IF m.ok
                  THEN RelabelFrom([lv EXCEPT ![i + offset] = m.v], flds, rels, offset, i + 1)
                  ELSE RelabelFrom(lv, flds, rels, offset, i + 1)
         ELSE RelabelFrom(lv, flds, rels, offset, i + 1)

\* the relabeling loop run on a vector made anew for every line
RelabelFresh(lv, flds, c) ==
    RelabelFrom(c.OrderedLabelValues \o [i \in 1..Len(Relabelings(c)) |-> << >>],
                flds, Relabelings(c), RelabelLabelOffset(c), 1)

Relabel(lv, flds, c) == RelabelFrom(lv, flds, Relabelings(c), RelabelLabelOffset(c), 1)

\* lines 329-334
NotCounterValues(lv, c) ==
    IF HasCounterOnlyLabels(c) THEN StripOnlyCounterValues(lv, Relabelings(c)) ELSE lv

\* ------------------------------------------------------------------------
\* Metrics (metrics.Collection)
\* ------------------------------------------------------------------------

NoSeries == << >>

NewCollection ==
    [ParseErrorsTotal           |-> 0,
     CountTotal                 |-> NoSeries,
     ResponseBytesTotal         |-> NoSeries,
     RequestBytesTotal          |-> NoSeries,
     CurrentUsers               |-> NoSeries,
     UpstreamSeconds            |-> << >>,
     UpstreamSecondsHist        |-> << >>,
     UpstreamConnectSeconds     |-> << >>,
     UpstreamConnectSecondsHist |-> << >>,
     ResponseSeconds            |-> << >>,
     ResponseSecondsHist        |-> << >>]

\* the number 1 in the fixed-point representation
One == Pow10(FracDigits)

\* a counter vector's value under a label vector
ValueOf(vec, lv) == IF lv \in DOMAIN vec THEN vec[lv] ELSE 0

\* vec.WithLabelValues(lv...).Add(v); Inc() is Add(1)
Add(vec, lv, v) ==
    IF lv \in DOMAIN vec THEN [vec EXCEPT ![lv] = @ + v] ELSE vec @@ (lv :> v)

\* vec.WithLabelValues(lv...).Set(v)
Set(vec, lv, v) ==
    IF lv \in DOMAIN vec THEN [vec EXCEPT ![lv] = v] ELSE vec @@ (lv :> v)

\* obs.WithLabelValues(lv...).Observe(v): the observations in arrival order
Observe(obs, lv, v) == Append(obs, [labels |-> lv, v |-> v])

\* the total count with the test of DisableCountTotal inverted
ObserveCountTotalInverted(m, lv, c) ==
    IF c.MetricsConfig.DisableCountTotal = TRUE
    THEN [m EXCEPT !.CountTotal = Add(@, lv, One)]
    ELSE m

\* lines 336-338
ObserveCountTotal(m, lv, c) ==
    IF c.MetricsConfig.DisableCountTotal # TRUE
    THEN [m EXCEPT !.CountTotal = Add(@, lv, One)]
    ELSE m

\* the gauge published whatever observeCurrentUsers returned
ObserveCurrentUsersAlways(m, ncv, o) ==
    [m EXCEPT !.CurrentUsers = Set(@, ncv, o.v)]

\* lines 341-343: publish the gauge if observeCurrentUsers returned ok
ObserveCurrentUsers(m, ncv, o) ==
    IF o.ok THEN [m EXCEPT !.CurrentUsers = Set(@, ncv, o.v)] ELSE m

\* the parseErrors.Inc() of one observeMetrics call: 1 if it ran, else 0
ParseErrorInc(o) == IF o.parseError THEN 1 ELSE 0

\* `if v, ok := observeMetrics(...); ok { vec.WithLabelValues(...).Add(v) }`
AddIfOk(vec, lv, o) == IF o.ok THEN Add(vec, lv, o.v) ELSE vec

\* `if v, ok := observeMetrics(...); ok { obs.WithLabelValues(...).Observe(v) }`
ObserveIfOk(obs, lv, o) == IF o.ok THEN Observe(obs, lv, o.v) ELSE obs

\* the updates of lines 363-384, given the result o[f] of observeMetrics for
\* every well-known field f.  Each statement touches its own metrics and the
\* parse-error counter only, so their sequence is one update of the collection.
ApplyObservations(m, ncv, o) ==
    [m EXCEPT
       !.ParseErrorsTotal = @ + ParseErrorInc(o["body_bytes_sent"])
                              + ParseErrorInc(o["request_length"])
                              + ParseErrorInc(o["upstream_response_time"])
                              + ParseErrorInc(o["upstream_connect_time"])
                              + ParseErrorInc(o["request_time"]),
       !.ResponseBytesTotal         = AddIfOk(@, ncv, o["body_bytes_sent"]),
       !.RequestBytesTotal          = AddIfOk(@, ncv, o["request_length"]),
       !.UpstreamSeconds            = ObserveIfOk(@, ncv, o["upstream_response_time"]),
       !.UpstreamSecondsHist        = ObserveIfOk(@, ncv, o["upstream_response_time"]),
       !.UpstreamConnectSeconds     = ObserveIfOk(@, ncv, o["upstream_connect_time"]),
       !.UpstreamConnectSecondsHist = ObserveIfOk(@, ncv, o["upstream_connect_time"]),
       !.ResponseSeconds            = ObserveIfOk(@, ncv, o["request_time"]),
       !.ResponseSecondsHist        = ObserveIfOk(@, ncv, o["request_time"])]

\* lines 363-384: the five field observations
ObserveFields(m, flds, ncv) ==
    ApplyObservations(m, ncv, [f \in WellKnownFields |-> observeMetrics(flds, f)])

\* ------------------------------------------------------------------------
\* User tracking
\* ------------------------------------------------------------------------

NoUsers == << >>

\* observeCurrentUsers keyed by the client address alone
observeCurrentUsersByAddr(flds, users, clock) ==
    IF "remote_addr" \notin DOMAIN flds \/ flds["remote_addr"] = << >>
    THEN [v |-> 0, ok |-> FALSE, users |-> users]
    ELSE IF "http_user_agent" \notin DOMAIN flds \/ flds["http_user_agent"] = << >>
    THEN [v |-> 0, ok |-> FALSE, users |-> users]
    ELSE LET updated == Set(users, flds["remote_addr"], clock)
         IN  [v |-> Cardinality(DOMAIN updated) * One, ok |-> TRUE, users |-> updated]

\* observeCurrentUsers: (value, ok) and the tracker after the call
observeCurrentUsers(flds, users, clock) ==
    IF "remote_addr" \notin DOMAIN flds \/ flds["remote_addr"] = << >>
    THEN [v |-> 0, ok |-> FALSE, users |-> users]
    ELSE IF "http_user_agent" \notin DOMAIN flds \/ flds["http_user_agent"] = << >>
    THEN [v |-> 0, ok |-> FALSE, users |-> users]
    ELSE LET userId  == flds["remote_addr"] \o <<":", ":">> \o flds["http_user_agent"]
             updated == Set(users, userId, clock)
         IN  [v |-> Cardinality(DOMAIN updated) * One, ok |-> TRUE, users |-> updated]

\* lines 351-355: the entries the pruning task keeps at time clock
Prune(users, clock, interval) ==
    [u \in {w \in DOMAIN users : ~(clock - users[w] > interval)} |-> users[u]]

\* the first tick of a ticker due at `due` that lies after time clock
NextDue(due, clock) ==
    IF clock < due THEN due
    ELSE due + TickerPeriod * ((clock - due) \div TickerPeriod + 1)

\* ------------------------------------------------------------------------
\* Line sources and the lines they deliver
\* ------------------------------------------------------------------------

\* the result of parser.ParseString: a field mapping, or a parse failure
Parsed(flds) == [ok |-> TRUE, fields |-> flds]
Unparsable   == [ok |-> FALSE, fields |-> << >>]

STATUS == "status"
REQ    == "request"
BBS    == "body_bytes_sent"
RLEN   == "request_length"
URT    == "upstream_response_time"
UCT    == "upstream_connect_time"
RT     == "request_time"
ADDR   == "remote_addr"
AGENT  == "http_user_agent"

\* access-log lines covering present, absent, "-", unparsable and
\* multi-valued fields
CuratedLines ==
    { Unparsable,
      Parsed((STATUS :> <<"2","0","0">>) @@ (BBS :> <<"5","1","2">>)
             @@ (RT :> <<"0",".","0","4","5">>)),
      Parsed((STATUS :> <<"4","0","4">>) @@ (REQ :> <<"G","E","T">>)
             @@ (BBS :> <<"x">>) @@ (RLEN :> <<"7">>)
             @@ (RT :> <<"0",".","0","4","5">>)),
      Parsed((BBS :> <<"5","1","2">>) @@ (URT :> <<"1",","," ","2">>)),
      Parsed((STATUS :> <<"2","0","0">>) @@ (BBS :> <<"-">>) @@ (RT :> <<"x">>)
             @@ (URT :> <<"0",".","5">>) @@ (UCT :> <<"1",":","x">>)),
      Parsed((STATUS :> <<"4","0","4">>) @@ (BBS :> <<"2","0">>) @@ (RLEN :> <<"7">>)
             @@ (URT :> <<"1",",","2">>) @@ (UCT :> <<"3">>) @@ (RT :> <<"0",".","5">>)),
      Parsed((STATUS :> <<"5","0","0">>) @@ (BBS :> <<"x">>) @@ (RLEN :> <<"x">>)
             @@ (URT :> <<"x">>) @@ (UCT :> <<"-",",","x">>) @@ (RT :> <<"1",".">>)) }

\* the characters of the exhaustively explored field values
Alphabet == {"1", ".", ",", ":", " ", "-", "x"}

Strings(n) == UNION {[1..k -> Alphabet] : k \in 0..n}

\* lines whose only field is an upstream time, with every value up to MaxLen
MultiLines == {Parsed(name :> s) : name \in {URT, UCT}, s \in Strings(MaxLen)}

\* lines of two users behind one address, and lines that identify no user
UserLines ==
    { Parsed((ADDR :> <<"a">>) @@ (AGENT :> <<"u">>) @@ (STATUS :> <<"2","0","0">>)),
      Parsed((ADDR :> <<"a">>) @@ (AGENT :> <<"v">>) @@ (STATUS :> <<"4","0","4">>)),
      Parsed((ADDR :> <<"a">>) @@ (AGENT :> << >>)),
      Parsed((AGENT :> <<"u">>)) }

\* what a line source of each kind can deliver (tail.Follower.Lines())
Lines(kind) ==
    CASE kind = "curated" -> CuratedLines
      [] kind = "multi"   -> MultiLines
      [] kind = "users"   -> UserLines

\* ------------------------------------------------------------------------
\* State
\* ------------------------------------------------------------------------

VARIABLES
    cfg,               \* nsCfg: the compiled namespace configuration
    t,                 \* the line source: its kind, lines left and lines read
    pc,                \* where processSource is
    line,              \* the result of parsing the line being processed
    fields,            \* the filtered field mapping of the last parsed line
    labelValues,       \* the pipeline's label vector
    notCounterValues,  \* the counter-excluded vector of the current line
    metrics,           \* the namespace's metrics.Collection
    usersUpdated,      \* usersUpdated.users: identity -> last-seen second
    observed,          \* the result of the pending observeCurrentUsers call
    ticker,            \* the pruning ticker: state, next due second, buffered tick
    pruner,            \* the pruning task: position and the vector it captured
    now,               \* time.Now().Unix()
    mu,                \* who holds usersUpdated.mu: "free", "pipeline", "pruner"
    pre,               \* history: state when the current line was read
    hist,              \* history: observations, last pruning pass, last gauge Set
    opts,              \* the startup flags and what the configuration asks for
    mainPc,            \* where main is
    nsPc,              \* where the namespace task (processNamespace) is
    sigPc,             \* where the signal task (lines 99-108) is
    sigChan,           \* signals buffered in sigChan, which holds at most 1
    stopChan,          \* the stop notification: "open" or "closed"
    stopHandlers,      \* the counter of the wait group stopHandlers
    handlers,          \* each shutdown handler's task: absent, waiting, acting, done
    exited,            \* "no" while the process runs, else how it ended
    followers,         \* where the task of each source of the namespace is
    errs,              \* processNamespace's channel errs, and what it carried
    result             \* the error processNamespace returned, << >> before

pipeVars == <<cfg, t, pc, line, fields, labelValues, notCounterValues>>
userVars == <<usersUpdated, observed, ticker, pruner, now, mu>>
sourceVars == <<pipeVars, metrics, userVars, pre, hist>>
lifeVars == <<opts, mainPc, nsPc, sigPc, sigChan, stopChan, stopHandlers, handlers, exited>>
nsVars == <<followers, errs, result>>
\* everything outside one source's pipeline
processVars == <<lifeVars, nsVars>>
vars == <<sourceVars, lifeVars, nsVars>>

Snapshot ==
    [metrics |-> metrics, labelValues |-> labelValues, fields |-> fields,
     parsed |-> hist.parsed, usersUpdated |-> usersUpdated]

NoTicker == [state |-> "nil", due |-> 0, buffered |-> FALSE]

NoHistory ==
    [parsed  |-> 0,
     written |-> {},
     seen    |-> << >>,
     prune   |-> [ran |-> FALSE, allExpired |-> FALSE, idle |-> FALSE, read |-> 0],
     lastSet |-> [by |-> "none", v |-> 0, labels |-> << >>],
     started |-> 0]

\* the shutdown handlers main and processNamespace can set up
Handlers == {"cpuprofile", "memprofile", "consul", "syslog"}

NoHandlers == [h \in Handlers |-> "absent"]

\* config.StartupFlags and the loaded configuration, as far as main's control
\* flow reads them.  Unstable stands for the condition of line 122:
\* StabilityWarnings() returns an error and experimental features are off.
StartupFlags(cpu, mem, verify, loadError, unstable, consul, syslog) ==
    [CPUProfile |-> cpu, MemProfile |-> mem, VerifyConfig |-> verify,
     LoadError |-> loadError, Unstable |-> unstable,
     ConsulEnable |-> consul, Syslog |-> syslog]

NoFlags == StartupFlags(FALSE, FALSE, FALSE, FALSE, FALSE, FALSE, FALSE)

\* errs := make(chan error) (line 264), with the errors received from it
NewErrs == [closed |-> FALSE, received |-> << >>]

\* a namespace whose source tasks are not looked at
NoSources ==
    /\ followers = << >>
    /\ errs = NewErrs
    /\ result = << >>

\* the process while its pipelines run: main serves HTTP, no shutdown
\* handler was asked for and no signal has arrived
Serving ==
    /\ opts = NoFlags
    /\ mainPc = "serve"
    /\ nsPc = "running"
    /\ sigPc = "receive"
    /\ sigChan = 0
    /\ stopChan = "open"
    /\ stopHandlers = 0
    /\ handlers = NoHandlers
    /\ exited = "no"

InitSource(configs, kind, n) ==
    /\ cfg \in configs
    /\ t = [kind |-> kind, left |-> n, read |-> 0]
    /\ pc = "start"
    /\ line = Unparsable
    /\ fields = << >>
    /\ labelValues = << >>
    /\ notCounterValues = << >>
    /\ metrics = NewCollection
    /\ usersUpdated = NoUsers
    /\ observed = [v |-> 0, ok |-> FALSE]
    /\ ticker = NoTicker
    /\ pruner = [pc |-> "none", captured |-> << >>]
    /\ now = 0
    /\ mu = "free"
    /\ hist = NoHistory
    /\ pre = [metrics |-> NewCollection, labelValues |-> << >>, fields |-> << >>,
              parsed |-> 0, usersUpdated |-> NoUsers]

InitPipeline(configs, kind, n) == InitSource(configs, kind, n) /\ Serving /\ NoSources

\* ------------------------------------------------------------------------
\* processSource
\* ------------------------------------------------------------------------

\* the label-count test failing already at the maximum
LabelCountExceededAtMax(c) == TotalLabelCount(c) >= maxStaticLabels

\* line 294
LabelCountExceeded(c) == TotalLabelCount(c) > maxStaticLabels

\* a rejected line skipped without counting it
OnParseErrorSilent(m) == m

\* lines 313-317: the effect of a line the parser rejects
OnParseError(m) == [m EXCEPT !.ParseErrorsTotal = @ + 1]

\* history: the rules that write their slot on a line with fields flds
Writers(flds, c) ==
    {i \in 1..Len(Relabelings(c)) :
        /\ Relabelings(c)[i].SourceValue \in DOMAIN flds
        /\ Map(Relabelings(c)[i], flds[Relabelings(c)[i].SourceValue]).ok}

\* lines 284-305: build the rule list, check the label count, make the vector
Start ==
    /\ pc = "start"
    /\ IF LabelCountExceeded(cfg)
       THEN /\ pc' = "failed"
            /\ UNCHANGED labelValues
       ELSE /\ pc' = "loop"
            /\ labelValues' = cfg.OrderedLabelValues
                                \o [i \in 1..Len(Relabelings(cfg)) |-> << >>]
    /\ pre' = [pre EXCEPT !.labelValues = labelValues']
    /\ UNCHANGED <<cfg, t, line, fields, notCounterValues, metrics, userVars, hist>>
    /\ UNCHANGED processVars

\* lines 307-338, and 363-384 when user tracking is off: one iteration of
\* the loop over t.Lines(), up to the call of observeCurrentUsers
ReadLine ==
    /\ pc = "loop"
    /\ t.left > 0
    /\ \E l \in Lines(t.kind) :
         /\ line' = l
         /\ t' = [t EXCEPT !.left = @ - 1, !.read = @ + 1]
         /\ pre' = Snapshot
         /\ IF ~l.ok
            THEN /\ metrics' = OnParseError(metrics)
                 /\ UNCHANGED <<fields, labelValues, notCounterValues, pc, hist>>
            ELSE /\ fields' = filterFields(l.fields, cfg)
                 /\ labelValues' = Relabel(labelValues, fields', cfg)
                 /\ notCounterValues' = NotCounterValues(labelValues', cfg)
                 /\ hist' = [hist EXCEPT !.parsed = @ + 1,
                                         !.written = @ \cup Writers(fields', cfg)]
                 /\ IF cfg.MetricsConfig.CurrentUserInterval > 0
                    THEN /\ metrics' = ObserveCountTotal(metrics, labelValues', cfg)
                         /\ pc' = "users"
                    ELSE /\ metrics' = ObserveFields(
                                          ObserveCountTotal(metrics, labelValues', cfg),
                                          fields', notCounterValues')
                         /\ pc' = "loop"
    /\ UNCHANGED <<cfg, userVars, processVars>>

\* line 341: observeCurrentUsers, under the tracker's lock
ObserveUsers ==
    /\ pc = "users"
    /\ LET o == observeCurrentUsers(fields, usersUpdated, now)
       IN  /\ observed' = [v |-> o.v, ok |-> o.ok]
           /\ usersUpdated' = o.users
           /\ hist' = IF o.ok
                      THEN [hist EXCEPT !.seen = Append(@,
                              [id   |-> <<fields["remote_addr"], fields["http_user_agent"]>>,
                               at   |-> now,
                               size |-> Cardinality(DOMAIN o.users)])]
                      ELSE hist
    /\ pc' = "gauge"
    /\ UNCHANGED <<cfg, t, line, fields, labelValues, notCounterValues, metrics,
                   ticker, pruner, now, pre, mu, processVars>>

\* lines 342-384: publish the gauge, start the pruning task on first use,
\* then the five field observations
Publish ==
    /\ pc = "gauge"
    /\ metrics' = ObserveFields(ObserveCurrentUsers(metrics, notCounterValues, observed),
                                fields, notCounterValues)
    /\ hist' = [hist EXCEPT
                  !.lastSet = IF observed.ok
                              THEN [by |-> "pipeline", v |-> observed.v,
                                    labels |-> notCounterValues]
                              ELSE @,
                  !.started = IF ticker.state = "nil" THEN @ + 1 ELSE @]
    /\ IF ticker.state = "nil"
       THEN /\ ticker' = [state |-> "running", due |-> now + TickerPeriod,
                          buffered |-> FALSE]
            /\ pruner' = [pc |-> "wait", captured |-> notCounterValues]
       ELSE UNCHANGED <<ticker, pruner>>
    /\ pc' = "loop"
    /\ UNCHANGED <<cfg, t, line, fields, labelValues, notCounterValues,
                   usersUpdated, observed, now, pre, mu, processVars>>

\* lines 385-387: the line channel is closed and processSource returns nil,
\* running the deferred ticker.Stop()
EndOfSource ==
    /\ pc = "loop"
    /\ pc' = "done"
    /\ ticker' = IF ticker.state = "running"
                 THEN [ticker EXCEPT !.state = "stopped"] ELSE ticker
    /\ UNCHANGED <<cfg, t, line, fields, labelValues, notCounterValues, metrics,
                   usersUpdated, observed, pruner, now, pre, hist, mu, processVars>>

\* ------------------------------------------------------------------------
\* The clock and the pruning task (lines 347-359)
\* ------------------------------------------------------------------------

\* time passes; a running ticker whose tick falls due buffers one tick
AdvanceClock ==
    /\ now + ClockStep <= MaxTime
    /\ now' = now + ClockStep
    /\ ticker' = IF ticker.state = "running" /\ now' >= ticker.due
                 THEN [ticker EXCEPT !.buffered = TRUE, !.due = NextDue(@, now')]
                 ELSE ticker
    /\ UNCHANGED <<pipeVars, metrics, usersUpdated, observed, pruner, pre, hist, mu,
                   processVars>>

\* lines 349-356: take a tick, then evict the expired entries under the lock
PruneTick ==
    /\ pruner.pc = "wait"
    /\ ticker.buffered
    /\ ticker' = [ticker EXCEPT !.buffered = FALSE]
    /\ usersUpdated' = Prune(usersUpdated, now, cfg.MetricsConfig.CurrentUserInterval)
    /\ pruner' = [pruner EXCEPT !.pc = "publish"]
    /\ hist' = [hist EXCEPT !.prune =
                  [ran        |-> TRUE,
                   allExpired |-> \A u \in DOMAIN usersUpdated :
                                     now - usersUpdated[u]
                                        > cfg.MetricsConfig.CurrentUserInterval,
                   idle       |-> pc \in {"loop", "done"},
                   read       |-> t.read]]
    /\ UNCHANGED <<pipeVars, metrics, observed, now, pre, mu, processVars>>

\* the vector the pruning task publishes under.  Without OnlyCounter rules
\* the captured slice is the pipeline's own label vector (line 333 copies
\* the slice header, not the values), so it shows the pipeline's writes.
PrunerLabels ==
    IF HasCounterOnlyLabels(cfg) THEN pruner.captured ELSE labelValues

\* line 357: republish the size of the tracker
PrunePublish ==
    /\ pruner.pc = "publish"
    /\ metrics' = [metrics EXCEPT !.CurrentUsers =
                      Set(@, PrunerLabels, Cardinality(DOMAIN usersUpdated) * One)]
    /\ hist' = [hist EXCEPT !.lastSet =
                  [by |-> "pruner", v |-> Cardinality(DOMAIN usersUpdated) * One,
                   labels |-> PrunerLabels]]
    /\ pruner' = [pruner EXCEPT !.pc = "wait"]
    /\ UNCHANGED <<pipeVars, usersUpdated, observed, ticker, now, pre, mu, processVars>>

\* ------------------------------------------------------------------------
\* Specification of one pipeline over curated lines, user tracking off
\* ------------------------------------------------------------------------

\* a rule that copies body_bytes_sent into a label
BytesRule == Rule("bytes", BBS, "passthrough", FALSE, FALSE)
\* a rule that replaces the built-in status rule by a capture that can fail
ClassRule == Rule("status", STATUS, "match", FALSE, FALSE)
\* a rule whose label goes to the total count only
CounterRule == Rule("rt", RT, "passthrough", TRUE, FALSE)
\* a rule that is consumed but not materialised
HiddenRule == Rule("hidden", RLEN, "passthrough", FALSE, TRUE)

RuleLists == { << >>, <<BytesRule, ClassRule>>, <<CounterRule, HiddenRule>> }

DisabledSets ==
    { {}, {"count_total"}, {BBS}, {RLEN}, {URT}, {UCT}, {RT}, {BBS, RT} }

Configs ==
    { NamespaceConfig(<<<<"s">>>>, r, 0, d) : r \in RuleLists, d \in DisabledSets }

Init == InitPipeline(Configs, "curated", MaxLines)

Next == Start \/ ReadLine \/ EndOfSource

Spec == Init /\ [][Next]_vars

\* ------------------------------------------------------------------------
\* Properties of the pipeline over curated lines
\* ------------------------------------------------------------------------

\* a line has been read and processSource is done with it
LineDone == pc \in {"loop", "done"} /\ t.read > 0

\* the metrics fed by a well-known field, both representations
MetricOf(f, m) ==
    CASE f = BBS  -> <<m.ResponseBytesTotal>>
      [] f = RLEN -> <<m.RequestBytesTotal>>
      [] f = URT  -> <<m.UpstreamSeconds, m.UpstreamSecondsHist>>
      [] f = UCT  -> <<m.UpstreamConnectSeconds, m.UpstreamConnectSecondsHist>>
      [] f = RT   -> <<m.ResponseSeconds, m.ResponseSecondsHist>>

\* the namespace configuration disables the metric of well-known field f
MetricDisabled(f) ==
    \/ f = BBS  /\ cfg.MetricsConfig.DisableResponseBytesTotal
    \/ f = RLEN /\ cfg.MetricsConfig.DisableRequestBytesTotal
    \/ f = URT  /\ cfg.MetricsConfig.DisableUpstreamSeconds
    \/ f = UCT  /\ cfg.MetricsConfig.DisableUpstreamConnectSeconds
    \/ f = RT   /\ cfg.MetricsConfig.DisableResponseSeconds

\* rule i wrote its slot on the previous parsed line
WroteOnPrevious(i) ==
    LET R == Relabelings(cfg)[i]
    IN  /\ pre.parsed >= 1
        /\ R.SourceValue \in DOMAIN pre.fields
        /\ Map(R, pre.fields[R.SourceValue]).ok

\* rule i does not write its slot on the current line
SkipsCurrent(i) ==
    LET R == Relabelings(cfg)[i]
    IN  \/ R.SourceValue \notin DOMAIN fields
        \/ ~Map(R, fields[R.SourceValue]).ok

\* C1: relabeling slot carry-forward.  If a rule wrote value v on parsed
\* line N and on the next parsed line N+1 its source field is absent (after
\* filtering) or its transform fails, the rule's slot in the label vector of
\* line N+1, the one the total count is updated under, still holds v; a slot
\* no line has written yet holds the empty string.
C1_CarryForward ==
    pc \in {"loop", "done"} =>
      /\ \A i \in 1..Len(Relabelings(cfg)) :
           LET R == Relabelings(cfg)[i]
               k == Len(cfg.OrderedLabelValues) + i
           IN  /\ (t.read > 0 /\ line.ok /\ WroteOnPrevious(i) /\ SkipsCurrent(i))
                    => labelValues[k] = Map(R, pre.fields[R.SourceValue]).v
               /\ i \notin hist.written => labelValues[k] = << >>
      /\ (t.read > 0 /\ line.ok /\ ~cfg.MetricsConfig.DisableCountTotal)
           => ValueOf(metrics.CountTotal, labelValues)
                = ValueOf(pre.metrics.CountTotal, labelValues) + One

\* a slot carries a non-empty value over a line that lacks the source field
C1_Witness ==
    /\ pc = "loop" /\ t.read >= 2 /\ line.ok
    /\ \E i \in 1..Len(Relabelings(cfg)) :
         /\ WroteOnPrevious(i)
         /\ Relabelings(cfg)[i].SourceValue \notin DOMAIN fields
         /\ labelValues[Len(cfg.OrderedLabelValues) + i] # << >>
         /\ labelValues[Len(cfg.OrderedLabelValues) + i]
              = pre.fields[Relabelings(cfg)[i].SourceValue]

\* C2: field filtering.  On every parsed line a well-known field whose
\* metric is disabled is absent from the filtered mapping and every other
\* field keeps its value; so no rule reading that field writes its slot, the
\* field's metric is not updated, and the parse-error counter counts only the
\* unconvertible values of fields that are not disabled.
C2_FieldFiltering ==
    (LineDone /\ line.ok) =>
      /\ DOMAIN fields \subseteq DOMAIN line.fields
      /\ \A f \in DOMAIN line.fields :
           IF f \in WellKnownFields /\ MetricDisabled(f)
           THEN f \notin DOMAIN fields
           ELSE f \in DOMAIN fields /\ fields[f] = line.fields[f]
      /\ \A f \in WellKnownFields :
           MetricDisabled(f) =>
             /\ MetricOf(f, metrics) = MetricOf(f, pre.metrics)
             /\ \A i \in 1..Len(Relabelings(cfg)) :
                  Relabelings(cfg)[i].SourceValue = f =>
                    labelValues[Len(cfg.OrderedLabelValues) + i]
                      = pre.labelValues[Len(cfg.OrderedLabelValues) + i]
      /\ metrics.ParseErrorsTotal
           = pre.metrics.ParseErrorsTotal
               + Cardinality({f \in WellKnownFields \cap DOMAIN line.fields :
                                ~MetricDisabled(f) /\ Extract(line.fields, f).err})

\* a line carries an unconvertible value in a disabled field that a rule reads
C2_Witness ==
    /\ LineDone /\ line.ok
    /\ \E f \in WellKnownFields \cap DOMAIN line.fields :
         /\ MetricDisabled(f)
         /\ Extract(line.fields, f).err
         /\ \E i \in 1..Len(Relabelings(cfg)) : Relabelings(cfg)[i].SourceValue = f
    /\ metrics.ParseErrorsTotal = pre.metrics.ParseErrorsTotal

\* C6: a line the parser rejects adds exactly 1 to the parse-error counter,
\* changes no other metric, leaves the label vector and the user tracker
\* alone, and leaves processSource in its loop, ready for the next line.
C6_ParserFailure ==
    [][ (t'.read = t.read + 1 /\ ~line'.ok) =>
          /\ metrics' = [metrics EXCEPT !.ParseErrorsTotal = @ + 1]
          /\ labelValues' = labelValues
          /\ usersUpdated' = usersUpdated
          /\ pc' = "loop" ]_vars

\* a rejected line was counted and the source still holds a line
C6_Witness ==
    /\ pc = "loop" /\ t.read >= 1 /\ t.left >= 1 /\ ~line.ok
    /\ metrics.ParseErrorsTotal = 1

\* the well-known fields of a mapping whose value is no number: a single
\* value other than "-" that does not parse, or a multi-value that fails
Unconvertible(flds) ==
    {f \in WellKnownFields \cap DOMAIN flds :
        IF f \in {URT, UCT} THEN Extract(flds, f).err
        ELSE flds[f] # <<"-">> /\ ~ParseFloat(flds[f]).ok}

Without(flds, names) == [f \in DOMAIN flds \ names |-> flds[f]]

NoMetricDisabled ==
    /\ ~cfg.MetricsConfig.DisableCountTotal
    /\ \A f \in WellKnownFields : ~MetricDisabled(f)

InitMulti == InitPipeline({NamespaceConfig(<< >>, << >>, 0, {})}, "multi", 1)

SpecMulti == InitMulti /\ [][Next]_vars

Delimiters == {",", ":"}

\* the entries of a multi-value, as the spans <<first, last>> of its maximal
\* delimiter-free runs
EntrySpans(s) ==
    {sp \in (1..Len(s)) \X (1..Len(s)) :
        /\ sp[1] <= sp[2]
        /\ \A i \in sp[1]..sp[2] : s[i] \notin Delimiters
        /\ (sp[1] = 1 \/ s[sp[1] - 1] \in Delimiters)
        /\ (sp[2] = Len(s) \/ s[sp[2] + 1] \in Delimiters)}

\* the text of an entry, without the whitespace around it
EntryText(s, sp) ==
    LET inked == {i \in sp[1]..sp[2] : s[i] # " "}
    IN  IF inked = {} THEN << >>
        ELSE SubSeq(s, CHOOSE i \in inked : \A j \in inked : i <= j,
                       CHOOSE i \in inked : \A j \in inked : i >= j)

\* the entries that are not the "-" token
ValueSpans(s) == {sp \in EntrySpans(s) : EntryText(s, sp) # <<"-">>}

RECURSIVE SumOfSpans(_, _)
SumOfSpans(s, spans) ==
    IF spans = {} THEN 0
    ELSE LET sp == CHOOSE x \in spans : TRUE
         IN  ParseFloat(EntryText(s, sp)).v + SumOfSpans(s, spans \ {sp})

HasBadEntry(s) == \E sp \in ValueSpans(s) : ~ParseFloat(EntryText(s, sp)).ok

\* C3: multi-value aggregation.  For upstream_response_time and
\* upstream_connect_time: if some entry other than "-" is no number, the
\* line records no observation for the field and counts exactly 1 parse
\* error for it; otherwise it counts none and, unless the whole value is the
\* single token "-", records exactly one observation, in the summary and in
\* the histogram, equal to the sum of the entries other than "-".
C3_MultiValueSum ==
    (LineDone /\ line.ok) =>
      /\ \A f \in {URT, UCT} \cap DOMAIN fields :
           LET s    == fields[f]
               same == MetricOf(f, metrics) = MetricOf(f, pre.metrics)
               one  == [labels |-> notCounterValues,
                        v |-> SumOfSpans(s, ValueSpans(s))]
           IN  IF HasBadEntry(s) \/ s = <<"-">>
               THEN same
               ELSE MetricOf(f, metrics) =
                      << Append(MetricOf(f, pre.metrics)[1], one),
                         Append(MetricOf(f, pre.metrics)[2], one) >>
      /\ metrics.ParseErrorsTotal
           = pre.metrics.ParseErrorsTotal
               + Cardinality({f \in {URT, UCT} \cap DOMAIN fields : HasBadEntry(fields[f])})
               + Cardinality({f \in {BBS, RLEN, RT} \cap DOMAIN fields :
                                fields[f] # <<"-">> /\ ~ParseFloat(fields[f]).ok})

\* the value "1,x": one entry is a number and one is not, so nothing is
\* observed and one parse error is counted
C3_Witness ==
    /\ LineDone /\ line.ok
    /\ URT \in DOMAIN fields /\ fields[URT] = <<"1", ",", "x">>
    /\ metrics.UpstreamSeconds = << >> /\ metrics.UpstreamSecondsHist = << >>
    /\ metrics.ParseErrorsTotal = 1

\* ------------------------------------------------------------------------
\* Specification of pipelines around the maximum label count
\* ------------------------------------------------------------------------

\* a rule that takes the built-in status rule's place and is not materialised
MutedStatusRule == Rule("status", STATUS, "passthrough", FALSE, TRUE)

StaticValues(n) == [i \in 1..n |-> <<"s">>]

OverflowConfigs ==
    { NamespaceConfig(StaticValues(n), r, 0, {}) :
        n \in (maxStaticLabels - 3)..maxStaticLabels,
        r \in RuleLists \cup {<<MutedStatusRule>>} }

InitOverflow == InitPipeline(OverflowConfigs, "curated", 1)

SpecOverflow == InitOverflow /\ [][Next]_vars

\* the configured rules followed by the built-in ones
MergedRules == cfg.RelabelConfigs \o DefaultRelabelings

\* the labels the rules contribute: the target labels whose first rule in
\* the merged list is not marked Exclude
RuleLabels ==
    {MergedRules[i].TargetLabel : i \in
        {j \in 1..Len(MergedRules) :
            /\ ~MergedRules[j].Exclude
            /\ \A h \in 1..(j - 1) :
                 MergedRules[h].TargetLabel # MergedRules[j].TargetLabel}}

LabelTotal == Len(cfg.OrderedLabelValues) + Cardinality(RuleLabels)

\* C5: label-vector overflow.  With more than 128 static plus rule labels
\* processSource returns its error before it reads a line and updates no
\* metric; with 128 or fewer it proceeds, and its label vector has exactly
\* that many slots for as long as it runs.
C5_LabelOverflow ==
    IF LabelTotal > 128
    THEN /\ pc \in {"start", "failed"}
         /\ t.read = 0
         /\ metrics = NewCollection
    ELSE /\ pc # "failed"
         /\ pc # "start" => Len(labelValues) = LabelTotal

\* a source with 129 labels has returned the error
C5_Witness == pc = "failed" /\ LabelTotal = 129 /\ t.read = 0

\* ------------------------------------------------------------------------
\* Specification of one pipeline with user tracking and its pruning task
\* ------------------------------------------------------------------------

\* a rule on the status whose label goes to the total count only
StatusCounterRule == Rule("code", STATUS, "passthrough", TRUE, FALSE)

UserConfigs ==
    { NamespaceConfig(<<<<"s">>>>, r, 10, {}) : r \in {<< >>, <<StatusCounterRule>>} }

InitUsers == InitPipeline(UserConfigs, "users", MaxUserLines)

NextUsers ==
    \/ Start \/ ReadLine \/ ObserveUsers \/ Publish \/ EndOfSource
    \/ AdvanceClock \/ PruneTick \/ PrunePublish

SpecUsers == InitUsers /\ [][NextUsers]_vars

\* the observations whose gauge value the pipeline has published
Published ==
    IF pc = "gauge" /\ observed.ok THEN Len(hist.seen) - 1 ELSE Len(hist.seen)

Interval == cfg.MetricsConfig.CurrentUserInterval

\* C4: distinct-user gauge.  Every observation publishes the size the
\* tracker has right after it; observations that lie within the interval of
\* the first one publish the number of distinct identities seen so far, so
\* A, B, A publishes 2; and a pruning pass that starts when every entry is
\* older than the interval, with no line arriving until it has published,
\* leaves the tracker empty and republishes the gauge as 0.
C4_DistinctUsers ==
    /\ (pc = "gauge" /\ observed.ok) =>
          observed.v = hist.seen[Len(hist.seen)].size * One
    /\ (hist.lastSet.by = "pipeline") =>
          hist.lastSet.v = hist.seen[Published].size * One
    /\ \A j \in 1..Len(hist.seen) :
          hist.seen[j].at - hist.seen[1].at <= Interval =>
             hist.seen[j].size = Cardinality({hist.seen[i].id : i \in 1..j})
    /\ (Len(hist.seen) = 3 /\ hist.seen[1].id = hist.seen[3].id
          /\ hist.seen[1].id # hist.seen[2].id
          /\ hist.seen[3].at - hist.seen[1].at <= Interval
          /\ Published = 3 /\ hist.lastSet.by = "pipeline") =>
             hist.lastSet.v = 2 * One
    /\ (pruner.pc = "wait" /\ hist.prune.ran /\ hist.prune.allExpired
          /\ hist.prune.idle /\ hist.prune.read = t.read) =>
             /\ usersUpdated = NoUsers
             /\ hist.lastSet.by = "pruner" /\ hist.lastSet.v = 0

\* A, B, A were observed within the interval, and a later pruning pass has
\* evicted both identities and republished 0
C4_Witness ==
    /\ Len(hist.seen) = 3
    /\ hist.seen[1].id = hist.seen[3].id /\ hist.seen[1].id # hist.seen[2].id
    /\ hist.seen[3].at - hist.seen[1].at <= Interval
    /\ hist.seen[3].size = 2
    /\ pruner.pc = "wait" /\ hist.prune.ran /\ hist.prune.allExpired
    /\ hist.prune.idle /\ hist.prune.read = t.read
    /\ usersUpdated = NoUsers
    /\ hist.lastSet.by = "pruner" /\ hist.lastSet.v = 0

\* ------------------------------------------------------------------------
\* Process lifecycle: main, the signal task and the shutdown handlers
\* ------------------------------------------------------------------------

Running == exited = "no"

\* a shutdown handler's registration: stopHandlers.Add(1), then the start of
\* its task, which blocks on <-stopChan
Register(h) ==
    /\ stopHandlers' = stopHandlers + 1
    /\ handlers' = [handlers EXCEPT ![h] = "waiting"]

\* line 115: the CPU profile's flush is registered if a file was asked for
SetupCPUProfiling ==
    /\ Running /\ mainPc = "cpuprofile"
    /\ IF opts.CPUProfile THEN Register("cpuprofile")
       ELSE UNCHANGED <<stopHandlers, handlers>>
    /\ mainPc' = "memprofile"
    /\ UNCHANGED <<opts, nsPc, sigPc, sigChan, stopChan, exited, sourceVars,
                   nsVars>>

\* line 116: likewise for the memory profile
SetupMemoryProfiling ==
    /\ Running /\ mainPc = "memprofile"
    /\ IF opts.MemProfile THEN Register("memprofile")
       ELSE UNCHANGED <<stopHandlers, handlers>>
    /\ mainPc' = "loadConfig"
    /\ UNCHANGED <<opts, nsPc, sigPc, sigChan, stopChan, exited, sourceVars,
                   nsVars>>

\* lines 118 and 161-175: logger.Fatal on a load error, os.Exit(0) after a
\* successful load under -verify-config; both end the process on the spot
loadConfig ==
    /\ Running /\ mainPc = "loadConfig"
    /\ IF opts.LoadError THEN exited' = "config" /\ UNCHANGED mainPc
       ELSE IF opts.VerifyConfig THEN exited' = "verify" /\ UNCHANGED mainPc
       ELSE /\ mainPc' = "stability"
            /\ UNCHANGED exited
    /\ UNCHANGED <<opts, nsPc, sigPc, sigChan, stopChan, stopHandlers, handlers,
                   sourceVars, nsVars>>

\* lines 122-132: os.Exit(1) on an experimental option that is not enabled
StabilityCheck ==
    /\ Running /\ mainPc = "stability"
    /\ IF opts.Unstable THEN exited' = "stability" /\ UNCHANGED mainPc
       ELSE /\ mainPc' = IF opts.ConsulEnable THEN "setupConsul" ELSE "namespaces"
            /\ UNCHANGED exited
    /\ UNCHANGED <<opts, nsPc, sigPc, sigChan, stopChan, stopHandlers, handlers,
                   sourceVars, nsVars>>

\* lines 178-197: register the service, logger.Fatal if that fails, then
\* start the task that unregisters it on stop
setupConsul ==
    /\ Running /\ mainPc = "setupConsul"
    /\ \E registered \in BOOLEAN :
         IF registered
         THEN /\ handlers' = [handlers EXCEPT !["consul"] = "waiting"]
              /\ mainPc' = "consulAdd"
              /\ UNCHANGED exited
         ELSE /\ exited' = "consul"
              /\ UNCHANGED <<handlers, mainPc>>
    /\ UNCHANGED <<opts, nsPc, sigPc, sigChan, stopChan, stopHandlers, sourceVars,
                   nsVars>>

\* line 199: stopHandlers.Add(1), after the task was started
ConsulAdd ==
    /\ Running /\ mainPc = "consulAdd"
    /\ stopHandlers' = stopHandlers + 1
    /\ mainPc' = "namespaces"
    /\ UNCHANGED <<opts, nsPc, sigPc, sigChan, stopChan, handlers, exited, sourceVars,
                   nsVars>>

\* lines 134-156: create the namespace's metrics and start its task.  The
\* registration of metrics and of the HTTP handler panics on an invalid
\* name; a panic of main runs main's deferred function.
StartNamespaces ==
    /\ Running /\ mainPc = "namespaces"
    /\ \E panics \in BOOLEAN :
         IF panics
         THEN mainPc' = "deferredClose" /\ UNCHANGED nsPc
         ELSE mainPc' = "serve" /\ nsPc' = "start"
    /\ UNCHANGED <<opts, sigPc, sigChan, stopChan, stopHandlers, handlers, exited,
                   sourceVars, nsVars>>

\* line 158: http.ListenAndServe returns an error and logger.Fatal ends
\* the process
ListenAndServeFails ==
    /\ Running /\ mainPc = "serve"
    /\ exited' = "http"
    /\ UNCHANGED <<opts, mainPc, nsPc, sigPc, sigChan, stopChan, stopHandlers,
                   handlers, sourceVars,
                   nsVars>>

\* line 111, in main's deferred function: closing a closed channel panics
DeferredClose ==
    /\ Running /\ mainPc = "deferredClose"
    /\ IF stopChan = "closed"
       THEN exited' = "panic" /\ UNCHANGED <<stopChan, mainPc>>
       ELSE /\ stopChan' = "closed"
            /\ mainPc' = "deferredWait"
            /\ UNCHANGED exited
    /\ UNCHANGED <<opts, nsPc, sigPc, sigChan, stopHandlers, handlers, sourceVars,
                   nsVars>>

\* line 112: stopHandlers.Wait(), after which the panic ends the process
DeferredWait ==
    /\ Running /\ mainPc = "deferredWait"
    /\ stopHandlers = 0
    /\ exited' = "panic"
    /\ UNCHANGED <<opts, mainPc, nsPc, sigPc, sigChan, stopChan, stopHandlers,
                   handlers, sourceVars,
                   nsVars>>

\* lines 205-253 of processNamespace: a follower that cannot be opened ends
\* the process through logger.Fatal, a syslog listener that cannot be bound
\* through panic; otherwise a syslog source registers the handler that
\* closes the server (lines 229-239)
processNamespace ==
    /\ Running /\ nsPc = "start"
    /\ \E outcome \in {"ok", "fatal"} \cup (IF opts.Syslog THEN {"panic"} ELSE {}) :
         IF outcome = "ok"
         THEN /\ IF opts.Syslog THEN Register("syslog")
                 ELSE UNCHANGED <<stopHandlers, handlers>>
              /\ nsPc' = "running"
              /\ UNCHANGED exited
         ELSE /\ exited' = IF outcome = "panic" THEN "panic" ELSE "source"
              /\ UNCHANGED <<stopHandlers, handlers, nsPc>>
    /\ UNCHANGED <<opts, mainPc, sigPc, sigChan, stopChan, sourceVars,
                   nsVars>>

\* the operating system delivers SIGINT or SIGTERM: signal.Notify (lines
\* 96-97) puts it into sigChan unless the channel is full
DeliverSignal ==
    /\ Running /\ sigChan = 0
    /\ sigChan' = 1
    /\ UNCHANGED <<opts, mainPc, nsPc, sigPc, stopChan, stopHandlers, handlers,
                   exited, sourceVars,
                   nsVars>>

\* lines 100-102
SignalReceive ==
    /\ Running /\ sigPc = "receive" /\ sigChan = 1
    /\ sigChan' = 0
    /\ sigPc' = "close"
    /\ UNCHANGED <<opts, mainPc, nsPc, stopChan, stopHandlers, handlers, exited,
                   sourceVars, nsVars>>

\* line 104: closing a closed channel panics
SignalClose ==
    /\ Running /\ sigPc = "close"
    /\ IF stopChan = "closed"
       THEN exited' = "panic" /\ UNCHANGED <<stopChan, sigPc>>
       ELSE /\ stopChan' = "closed"
            /\ sigPc' = "wait"
            /\ UNCHANGED exited
    /\ UNCHANGED <<opts, mainPc, nsPc, sigChan, stopHandlers, handlers, sourceVars,
                   nsVars>>

\* line 105: stopHandlers.Wait() returns when the counter is 0
SignalWait ==
    /\ Running /\ sigPc = "wait"
    /\ stopHandlers = 0
    /\ sigPc' = "exit"
    /\ UNCHANGED <<opts, mainPc, nsPc, sigChan, stopChan, stopHandlers, handlers,
                   exited, sourceVars,
                   nsVars>>

\* line 107: os.Exit(0)
SignalExit ==
    /\ Running /\ sigPc = "exit"
    /\ exited' = "signal"
    /\ UNCHANGED <<opts, mainPc, nsPc, sigPc, sigChan, stopChan, stopHandlers,
                   handlers, sourceVars,
                   nsVars>>

\* a handler's task passes <-stopChan (lines 189, 232) and starts its
\* shutdown action
HandlerStop ==
    /\ Running /\ stopChan = "closed"
    /\ \E h \in Handlers :
         /\ handlers[h] = "waiting"
         /\ handlers' = [handlers EXCEPT ![h] = "acting"]
    /\ UNCHANGED <<opts, mainPc, nsPc, sigPc, sigChan, stopChan, stopHandlers,
                   exited, sourceVars,
                   nsVars>>

\* the shutdown action is over and the task calls stopHandlers.Done()
\* (lines 196, 238), which panics if it takes the counter below 0
HandlerDone ==
    /\ Running
    /\ \E h \in Handlers :
         /\ handlers[h] = "acting"
         /\ handlers' = [handlers EXCEPT ![h] = "done"]
    /\ IF stopHandlers = 0
       THEN exited' = "panic" /\ UNCHANGED stopHandlers
       ELSE stopHandlers' = stopHandlers - 1 /\ UNCHANGED exited
    /\ UNCHANGED <<opts, mainPc, nsPc, sigPc, sigChan, stopChan, sourceVars,
                   nsVars>>

\* ------------------------------------------------------------------------
\* Specification of the process from the installation of the signal task
\* and of main's deferred function (line 113) to its exit
\* ------------------------------------------------------------------------

AllFlags ==
    { StartupFlags(cpu, mem, verify, loadError, unstable, consul, syslog) :
        cpu \in BOOLEAN, mem \in BOOLEAN, verify \in BOOLEAN, loadError \in BOOLEAN,
        unstable \in BOOLEAN, consul \in BOOLEAN, syslog \in BOOLEAN }

InitLifecycle ==
    /\ InitSource({NamespaceConfig(<< >>, << >>, 0, {})}, "curated", 0)
    /\ opts \in AllFlags
    /\ mainPc = "cpuprofile"
    /\ nsPc = "none"
    /\ sigPc = "receive"
    /\ sigChan = 0
    /\ stopChan = "open"
    /\ stopHandlers = 0
    /\ handlers = NoHandlers
    /\ exited = "no"
    /\ NoSources

NextLifecycle ==
    \/ SetupCPUProfiling \/ SetupMemoryProfiling \/ loadConfig \/ StabilityCheck
    \/ setupConsul \/ ConsulAdd \/ StartNamespaces \/ ListenAndServeFails
    \/ DeferredClose \/ DeferredWait \/ processNamespace
    \/ DeliverSignal \/ SignalReceive \/ SignalClose \/ SignalWait \/ SignalExit
    \/ HandlerStop \/ HandlerDone

SpecLifecycle == InitLifecycle /\ [][NextLifecycle]_vars

\* the handlers whose task is running or waiting, its shutdown action not
\* yet finished
Unfinished == {h \in Handlers : handlers[h] \in {"waiting", "acting"}}

\* C9: signal-triggered shutdown ordering.  When the process exits through
\* the signal task, the stop notification has been closed and every shutdown
\* handler that was set up has finished its shutdown action, whenever the
\* signal arrives.
C9_SignalShutdown ==
    exited = "signal" => (stopChan = "closed" /\ Unfinished = {})

\* the exits the process takes on a signal, a failed stability check, a
\* configuration that does not load and a failing HTTP server
ListedExits == {"signal", "stability", "config", "http"}

\* C10: shutdown on every exit path.  When the process has exited on one
\* of these paths, the stop notification is closed and every handler
\* registered with the wait group has completed.
C10_EveryExitPath ==
    exited \in ListedExits => (stopChan = "closed" /\ stopHandlers = 0)

\* ------------------------------------------------------------------------
\* processNamespace and the tasks of its sources (lines 264-275)
\* ------------------------------------------------------------------------

\* what processSource returns: the label-count error of line 295, or nil
\* when the lines of its source have ended (line 387)
SourceResult(c) == IF LabelCountExceeded(c) THEN "error" ELSE "nil"

\* a source task sending whatever processSource returned
SendsEveryResult(r) == TRUE

\* line 269: a source task sends its result only if it is an error
SendsResult(r) == r # "nil"

\* lines 267-273: start one task per follower, then wait at `<-errs`
StartSources ==
    /\ Running /\ nsPc = "running"
    /\ followers' = [i \in DOMAIN followers |-> "run"]
    /\ nsPc' = "receive"
    /\ UNCHANGED <<opts, mainPc, sigPc, sigChan, stopChan, stopHandlers, handlers,
                   exited, errs, result, sourceVars>>

\* line 269: processSource returns in the task of source i; an error takes
\* the task to its send on errs (line 270), nil ends it
SourceReturns ==
    /\ Running
    /\ \E i \in DOMAIN followers :
         /\ followers[i] = "run"
         /\ followers' = [followers EXCEPT ![i] =
                            IF SendsResult(SourceResult(cfg)) THEN "send" ELSE "returned"]
    /\ UNCHANGED <<lifeVars, errs, result, sourceVars>>

\* lines 213-215 and 247-249: a follower reports an asynchronous error to
\* its OnError callback, which calls logger.Fatal
SourceError ==
    /\ Running
    /\ \E i \in DOMAIN followers :
         /\ followers[i] = "run"
         /\ followers' = [followers EXCEPT ![i] = "raised"]
    /\ exited' = "source"
    /\ UNCHANGED <<opts, mainPc, nsPc, sigPc, sigChan, stopChan, stopHandlers,
                   handlers, errs, result, sourceVars>>

\* line 275 with the deferred close of line 265: processNamespace receives
\* the error a source task is sending, returns it, and errs is closed
ReceiveError ==
    /\ Running /\ nsPc = "receive" /\ ~errs.closed
    /\ \E i \in DOMAIN followers :
         /\ followers[i] = "send"
         /\ followers' = [followers EXCEPT ![i] = "sent"]
         /\ errs' = [closed |-> TRUE, received |-> Append(errs.received, i)]
         /\ result' = <<i>>
    /\ nsPc' = "returned"
    /\ UNCHANGED <<opts, mainPc, sigPc, sigChan, stopChan, stopHandlers, handlers,
                   exited, sourceVars>>

\* line 270 once errs is closed: a send on a closed channel panics, also
\* when the task was already blocked in it
SendOnClosed ==
    /\ Running /\ errs.closed
    /\ \E i \in DOMAIN followers : followers[i] = "send"
    /\ exited' = "panic"
    /\ UNCHANGED <<opts, mainPc, nsPc, sigPc, sigChan, stopChan, stopHandlers,
                   handlers, nsVars, sourceVars>>

\* ------------------------------------------------------------------------
\* Specification of one namespace with up to MaxSources sources
\* ------------------------------------------------------------------------

InitNamespace ==
    /\ InitSource(OverflowConfigs, "curated", 0)
    /\ Serving
    /\ \E n \in 0..MaxSources : followers = [i \in 1..n |-> "idle"]
    /\ errs = NewErrs
    /\ result = << >>

NextNamespace ==
    StartSources \/ SourceReturns \/ SourceError \/ ReceiveError \/ SendOnClosed

SpecNamespace == InitNamespace /\ [][NextNamespace]_vars

\* C11: the result of processNamespace.  It has returned only if a source's
\* pipeline failed, and then with the first error received from errs, sent
\* by that source's task; while no pipeline has failed, also when every
\* pipeline has ended normally or there is no source, it stays blocked.
C11_OrchestratorResult ==
    /\ (nsPc = "returned") <=> (result # << >>)
    /\ nsPc = "returned" =>
         /\ LabelTotal > 128
         /\ Len(errs.received) = 1 /\ result = <<errs.received[1]>>
         /\ followers[result[1]] = "sent"
    /\ (nsPc # "running" /\ \A i \in DOMAIN followers : followers[i] = "returned")
         => (nsPc = "receive" /\ result = << >> /\ ~errs.closed)

\* of two failing sources the second delivered first and its error was returned
C11_Witness ==
    /\ Len(followers) = 2 /\ nsPc = "returned"
    /\ result = <<2>> /\ followers[2] = "sent" /\ followers[1] \in {"run", "send"}

\* C12: asynchronous source errors are forwarded.  A source that has raised
\* an asynchronous error leaves the process running, with its pipeline
\* delivering that error to processNamespace.
C12_AsyncErrorForwarded ==
    \A i \in DOMAIN followers :
       followers[i] = "raised" => (exited = "no" /\ nsPc \in {"receive", "returned"})

\* C14: later pipeline failures are silently dropped.  Once processNamespace
\* has returned the first error, a later failing pipeline does not crash the
\* process.
C14_LaterFailuresDropped ==
    nsPc = "returned" => exited # "panic"

\* ------------------------------------------------------------------------
\* NamespaceConfig.OrderLabels (struct_namespace.go, lines 144-160)
\* ------------------------------------------------------------------------

\* the byte of a character, for the characters label names are made of here
ByteOf(c) ==
    CASE c = "A" -> 65 [] c = "a" -> 97 [] c = "b" -> 98

\* Go's a < b on strings: bytewise, a proper prefix coming first
StringLess(a, b) ==
    \E k \in 1..(Len(a) + 1) :
       /\ \A j \in 1..(k - 1) : j <= Len(b) /\ a[j] = b[j]
       /\ k <= Len(b)
       /\ (k = Len(a) + 1 \/ ByteOf(a[k]) < ByteOf(b[k]))

\* insertion of key k into the sorted sequence keys
RECURSIVE InsertSorted(_, _)
InsertSorted(keys, k) ==
    IF keys = << >> THEN <<k>>
    ELSE IF StringLess(k, Head(keys)) THEN <<k>> \o keys
    ELSE <<Head(keys)>> \o InsertSorted(Tail(keys), k)

\* the keys left in the order the map iteration produced them
Unsorted(keys) == keys

\* sort.Strings(keys)
RECURSIVE SortStrings(_)
SortStrings(keys) ==
    IF keys = << >> THEN << >>
    ELSE InsertSorted(SortStrings(SubSeq(keys, 1, Len(keys) - 1)), keys[Len(keys)])

\* the orders in which `for k := range c.Labels` can produce the keys
IterationOrders(m) ==
    {o \in [1..Cardinality(DOMAIN m) -> DOMAIN m] :
        \A i, j \in DOMAIN o : i # j => o[i] # o[j]}

\* OrderLabels, for one iteration order of the map
OrderLabels ==
    /\ "Labels" \in DOMAIN cfg
    /\ \E order \in IterationOrders(cfg.Labels) :
         LET keys == SortStrings(order)
         IN  cfg' = [cfg EXCEPT
                       !.OrderedLabelNames  = keys,
                       !.OrderedLabelValues = [i \in 1..Len(keys) |-> cfg.Labels[keys[i]]]]
    /\ UNCHANGED <<t, pc, line, fields, labelValues, notCounterValues, metrics,
                   userVars, pre, hist, processVars>>

\* ------------------------------------------------------------------------
\* Specification of OrderLabels over small static label mappings
\* ------------------------------------------------------------------------

LabelNames == UNION {[1..k -> {"A", "a", "b"}] : k \in 0..2}

\* the static label mappings of up to MaxLabels labels
LabelMaps ==
    UNION {[S -> {<<"x">>, <<"y">>}] :
             S \in {S \in SUBSET LabelNames : Cardinality(S) <= MaxLabels}}

\* namespace configurations before Compile has run
LabelConfigs ==
    { [Labels |-> m, OrderedLabelNames |-> << >>, OrderedLabelValues |-> << >>,
       RelabelConfigs |-> << >>, MetricsConfig |-> MetricsConfig(0, {})] :
        m \in LabelMaps }

InitOrder == InitPipeline(LabelConfigs, "curated", 0)

NextOrder == OrderLabels

SpecOrder == InitOrder /\ [][NextOrder]_vars

\* a comes before b in the lexicographic order of their bytes
RECURSIVE LexBefore(_, _)
LexBefore(a, b) ==
    IF b = << >> THEN FALSE
    ELSE IF a = << >> THEN TRUE
    ELSE IF Head(a) = Head(b) THEN LexBefore(Tail(a), Tail(b))
    ELSE ByteOf(Head(a)) < ByteOf(Head(b))

\* the lists hold the label names in strictly ascending order, every name
\* once, and each value under the index of its name
OrderedFor(names, values, m) ==
    /\ Len(names) = Cardinality(DOMAIN m) /\ Len(values) = Len(names)
    /\ {names[i] : i \in DOMAIN names} = DOMAIN m
    /\ \A i, j \in DOMAIN names : i < j => LexBefore(names[i], names[j])
    /\ \A i \in DOMAIN names : values[i] = m[names[i]]

\* C13: deterministic label ordering.  Every run of OrderLabels, whatever
\* the iteration order of the mapping, leaves the names sorted
\* lexicographically with each value at the index of its name, and a run on
\* a configuration that was ordered before leaves both lists as they were.
C13_LabelOrdering ==
    [][ cfg' # cfg \/ ("Labels" \in DOMAIN cfg /\ cfg.OrderedLabelNames # << >>) =>
          /\ OrderedFor(cfg'.OrderedLabelNames, cfg'.OrderedLabelValues, cfg.Labels)
          /\ cfg'.Labels = cfg.Labels
          /\ cfg.OrderedLabelNames # << >> =>
               /\ cfg'.OrderedLabelNames = cfg.OrderedLabelNames
               /\ cfg'.OrderedLabelValues = cfg.OrderedLabelValues ]_vars

\* three labels, one of them a prefix of another and one in upper case,
\* have been ordered
C13_Witness ==
    /\ "Labels" \in DOMAIN cfg
    /\ DOMAIN cfg.Labels = {<<"a">>, <<"a", "b">>, <<"A", "b">>}
    /\ cfg.OrderedLabelNames = << <<"A", "b">>, <<"a">>, <<"a", "b">> >>
    /\ cfg.OrderedLabelValues
         = << cfg.Labels[<<"A", "b">>], cfg.Labels[<<"a">>], cfg.Labels[<<"a", "b">>] >>
    /\ cfg.Labels[<<"a">>] # cfg.Labels[<<"a", "b">>]

\* ------------------------------------------------------------------------
\* The user tracker's lock: observeCurrentUsers and the pruning task, with
\* the steps in which usersUpdated.mu is taken and released
\* ------------------------------------------------------------------------

\* lines 414-421: the line names a user
HasIdentity(flds) == observeCurrentUsers(flds, NoUsers, 0).ok

\* lines 414-423 of observeCurrentUsers: return (0, false) for a line that
\* names no user, else take the lock
UsersEnter ==
    /\ pc = "users"
    /\ IF HasIdentity(fields)
       THEN /\ mu = "free"
            /\ mu' = "pipeline"
            /\ pc' = "locked"
            /\ UNCHANGED observed
       ELSE /\ observed' = [v |-> 0, ok |-> FALSE]
            /\ pc' = "gauge"
            /\ UNCHANGED mu
    /\ UNCHANGED <<cfg, t, line, fields, labelValues, notCounterValues, metrics,
                   usersUpdated, ticker, pruner, now, pre, hist, processVars>>

\* lines 425-426 and the deferred Unlock of line 424
UsersWrite ==
    /\ pc = "locked"
    /\ LET o == observeCurrentUsers(fields, usersUpdated, now)
       IN  /\ observed' = [v |-> o.v, ok |-> o.ok]
           /\ usersUpdated' = o.users
           /\ hist' = [hist EXCEPT !.seen = Append(@,
                         [id   |-> <<fields["remote_addr"], fields["http_user_agent"]>>,
                          at   |-> now,
                          size |-> Cardinality(DOMAIN o.users)])]
    /\ mu' = "free"
    /\ pc' = "gauge"
    /\ UNCHANGED <<cfg, t, line, fields, labelValues, notCounterValues, metrics,
                   ticker, pruner, now, pre, processVars>>

\* lines 349-350: take a tick, then the lock
PruneLock ==
    /\ pruner.pc = "wait"
    /\ ticker.buffered
    /\ mu = "free"
    /\ ticker' = [ticker EXCEPT !.buffered = FALSE]
    /\ mu' = "pruner"
    /\ pruner' = [pruner EXCEPT !.pc = "evict"]
    /\ UNCHANGED <<pipeVars, metrics, usersUpdated, observed, now, pre, hist,
                   processVars>>

\* lines 351-356: evict the expired entries and release the lock; the task
\* is then at line 357, where it reads the tracker's size
PruneEvict ==
    /\ pruner.pc = "evict"
    /\ usersUpdated' = Prune(usersUpdated, now, cfg.MetricsConfig.CurrentUserInterval)
    /\ mu' = "free"
    /\ pruner' = [pruner EXCEPT !.pc = "publish"]
    /\ hist' = [hist EXCEPT !.prune =
                  [ran        |-> TRUE,
                   allExpired |-> \A u \in DOMAIN usersUpdated :
                                     now - usersUpdated[u]
                                        > cfg.MetricsConfig.CurrentUserInterval,
                   idle       |-> pc \in {"loop", "done"},
                   read       |-> t.read]]
    /\ UNCHANGED <<pipeVars, metrics, observed, ticker, now, pre, processVars>>

\* ------------------------------------------------------------------------
\* Specification of one pipeline and its pruning task at the level of the
\* tracker's lock
\* ------------------------------------------------------------------------

InitLock == InitPipeline(UserConfigs, "users", MaxLines)

NextLock ==
    \/ Start \/ ReadLine \/ UsersEnter \/ UsersWrite \/ Publish \/ EndOfSource
    \/ AdvanceClock \/ PruneLock \/ PruneEvict \/ PrunePublish

SpecLock == InitLock /\ [][NextLock]_vars

\* C15: tracker access discipline.  The pipeline inside observeCurrentUsers'
\* write and the pruning task at its eviction and at its read of the
\* tracker's size each hold the lock, so the pruning task is never at its
\* read while the pipeline is inside its write.
C15_TrackerLocked ==
    /\ pc = "locked" => mu = "pipeline"
    /\ pruner.pc \in {"evict", "publish"} => mu = "pruner"
    /\ ~(pc = "locked" /\ pruner.pc = "publish")

\* the pipeline is inside its write, holding the lock, while the pruning
\* task is at its read of the size
C15_Witness == pc = "locked" /\ mu = "pipeline" /\ pruner.pc = "publish"

\* ------------------------------------------------------------------------
\* Properties of the pruning task's labels and of the published gauge
\* ------------------------------------------------------------------------

\* C16: pruning task label snapshot.  Whenever the pruning task has
\* republished the gauge, it did so under the counter-excluded label vector
\* of the line that created the task, whatever the pipeline has written
\* into its label vector since.
C16_PrunerSnapshot ==
    hist.lastSet.by = "pruner" => hist.lastSet.labels = pruner.captured

\* ------------------------------------------------------------------------
\* Properties of the label vector's layout
\* ------------------------------------------------------------------------

\* processSource has made its label vector and has not failed
HasVector == pc \in {"loop", "users", "locked", "gauge", "done"}

\* C17: static segment invariant.  While a pipeline runs, its label vector
\* has one slot per static label and per rule label, the static slots hold
\* the namespace's OrderedLabelValues, and a step changes a slot only if it
\* is the slot of a rule, at the static count plus the rule's position,
\* whose transform of the line's field gave the new value.
C17_StaticSegment ==
    /\ [](HasVector =>
            /\ Len(labelValues) = LabelTotal
            /\ SubSeq(labelValues, 1, Len(cfg.OrderedLabelValues))
                 = cfg.OrderedLabelValues)
    /\ [][ HasVector =>
             /\ Len(labelValues') = Len(labelValues)
             /\ \A k \in DOMAIN labelValues :
                  labelValues'[k] # labelValues[k] =>
                    LET i == k - Len(cfg.OrderedLabelValues)
                    IN  /\ i \in 1..Cardinality(RuleLabels)
                        /\ Relabelings(cfg)[i].SourceValue \in DOMAIN fields'
                        /\ labelValues'[k]
                             = Map(Relabelings(cfg)[i],
                                   fields'[Relabelings(cfg)[i].SourceValue]).v ]_vars

\* two lines have been read, the last rule's slot has been written and the
\* static slot still holds its value
C17_Witness ==
    /\ pc = "loop" /\ t.read = 2 /\ line.ok
    /\ cfg.OrderedLabelValues = << <<"s">> >>
    /\ labelValues[1] = <<"s">>
    /\ labelValues[Len(labelValues)] # << >>
    /\ labelValues # pre.labelValues

\* ------------------------------------------------------------------------
\* Specification of one pipeline under user-tracking intervals below, at
\* and above 0
\* ------------------------------------------------------------------------

IntervalConfigs ==
    { NamespaceConfig(<<<<"s">>>>, << >>, i, {}) : i \in {0 - 1, 0, 10} }

InitIntervals == InitPipeline(IntervalConfigs, "users", MaxUserLines)

SpecIntervals == InitIntervals /\ [][NextUsers]_vars

\* the line's fields name a user: both parts of the identity are non-empty
Identified(flds) ==
    /\ ADDR \in DOMAIN flds /\ flds[ADDR] # << >>
    /\ AGENT \in DOMAIN flds /\ flds[AGENT] # << >>

\* C18: at most one pruning task per pipeline.  The task and its ticker are
\* started at most once and only under an interval > 0; under an interval
\* of 0 or less the tracker stays empty, there is no task and no ticker and
\* the gauge is never set; a line that does not name a user leaves the
\* tracker as it is and publishes no gauge value.
C18_OnePruningTask ==
    /\ [](/\ hist.started <= 1
          /\ (hist.started = 1) <=> (pruner.pc # "none")
          /\ (hist.started = 1) <=> (ticker.state # "nil")
          /\ hist.started = 1 => Interval > 0
          /\ Interval <= 0 =>
               /\ usersUpdated = NoUsers
               /\ metrics.CurrentUsers = NoSeries
               /\ hist.lastSet.by = "none")
    /\ [][ /\ (pc = "users" /\ pc' = "gauge" /\ ~Identified(fields)) =>
                (usersUpdated' = usersUpdated /\ ~observed'.ok)
           /\ (pc = "gauge" /\ pc' = "loop" /\ ~Identified(fields)) =>
                metrics'.CurrentUsers = metrics.CurrentUsers
           /\ hist.started = 1 => (ticker'.state # "nil" /\ pruner'.pc # "none"
                                   /\ pruner'.captured = pruner.captured) ]_vars

\* three lines under an interval > 0, the last of which names no user: one
\* task was started, by the first line, and the tracker holds the one user
C18_Witness ==
    /\ Interval > 0 /\ pc = "loop" /\ t.read = 3
    /\ ~Identified(fields)
    /\ hist.started = 1 /\ pruner.pc # "none"
    /\ Cardinality(DOMAIN usersUpdated) = 1
    /\ Len(hist.seen) = 1

\* ------------------------------------------------------------------------
\* Specification of one pipeline with user tracking whose label values
\* never change: the status rule is not materialised and no line carries a
\* request
\* ------------------------------------------------------------------------

GaugeConfigs == { NamespaceConfig(<<<<"s">>>>, <<MutedStatusRule>>, 10, {}) }

InitGauge == InitPipeline(GaugeConfigs, "users", MaxUserLines)

SpecGauge == InitGauge /\ [][NextUsers]_vars

\* neither task is at work on the tracker or the gauge: the pipeline is
\* between lines or has returned, the pruning task waits for a tick
TrackerAtRest == pc \in {"loop", "done"} /\ pruner.pc = "wait"

\* C19: gauge consistency under interleaving.  With both tasks at rest the
\* published gauge, the one series the constant label values give, equals
\* the number of entries in the tracker.
C19_GaugeConsistent ==
    TrackerAtRest =>
      /\ Cardinality(DOMAIN metrics.CurrentUsers) <= 1
      /\ \A lv \in DOMAIN metrics.CurrentUsers :
           metrics.CurrentUsers[lv] = Cardinality(DOMAIN usersUpdated) * One

\* the entries of a multi-value that are numbers
NumberSpans(s) == {sp \in EntrySpans(s) : ParseFloat(EntryText(s, sp)).ok}

\* C20: absent upstream values produce no observation.  A line records an
\* observation for upstream_response_time or upstream_connect_time only if
\* at least one entry of the field's value parsed as a number, so the empty
\* string and a list of "-" entries record none.
C20_AbsentUpstreamValues ==
    (LineDone /\ line.ok) =>
      \A f \in {URT, UCT} \cap DOMAIN fields :
        MetricOf(f, metrics) # MetricOf(f, pre.metrics)
          => NumberSpans(fields[f]) # {}

\* ------------------------------------------------------------------------
\* The pruning task under fair scheduling
\* ------------------------------------------------------------------------

\* one step of the pruning task's loop (lines 348-358).  The loop has no
\* exit: no return, no break, and ticker.Stop() does not close ticker.C
PrunerStep == PruneLock \/ PruneEvict \/ PrunePublish

\* the scheduler runs the pruning task whenever it can take a step, and
\* time passes
SpecLifetime ==
    InitLock /\ [][NextLock]_vars /\ WF_vars(PrunerStep) /\ WF_vars(AdvanceClock)

\* processSource has returned and had started its pruning task
ReturnedWithPruner == pc = "done" /\ pruner.pc # "none"

\* once processSource has returned, the pruning task terminates
PrunerTerminates == ReturnedWithPruner ~> (pruner.pc = "exited")

\* once processSource has returned, no step changes the tracker or sets the
\* gauge from the pruning task
NoWorkAfterReturn ==
    [][pc = "done" =>
         /\ usersUpdated' = usersUpdated
         /\ ~(pruner.pc = "publish" /\ pruner'.pc = "wait")]_vars

\* C21: pruning task lifetime.  When the line source ends and processSource
\* returns, the pruning task eventually terminates, and after the return it
\* neither changes the tracker nor publishes the gauge.
C21_PruningTaskLifetime == PrunerTerminates /\ NoWorkAfterReturn

\* processSource has returned, its ticker is stopped with no tick pending,
\* and the pruning task is waiting on the ticker's channel
C21_Witness ==
    /\ ReturnedWithPruner
    /\ ticker.state = "stopped" /\ ~ticker.buffered
    /\ pruner.pc = "wait"

====
